---- MODULE Spec2Model ----
(***************************************************************************)
(* Point-cloud loader / binary encoder (services/point_cloud.py), the      *)
(* COLMAP text parsers (services/colmap_parser.py), the in-memory store    *)
(* (services/building_store.py) and the routes that call them.             *)
(*                                                                         *)
(* The loaders and parsers are pure functions of the files they read.      *)
(* Their specifications draw the files from bounded sets in the initial    *)
(* state, and their actions apply one function and record what the call    *)
(* returned or raised.  The store specifications start from the seeded     *)
(* demo store and apply its methods; the load_colmap specification runs    *)
(* concurrent requests statement by statement.                             *)
(***************************************************************************)
EXTENDS Integers, Sequences, FiniteSets, TLC

VARIABLES
    cloudFile,      \* the file behind the path given to load_point_cloud
    o3dAvailable,   \* whether "import open3d" succeeds in this process
    cloudOut,       \* outcome of the last point-cloud call
    imagesFile,     \* the lines of an images.txt
    imagesOut,      \* outcome of parse_images_txt
    workspace,      \* the three optional files of a COLMAP workspace
    wsOut,          \* outcome of load_colmap_workspace
    store,          \* the BuildingStore singleton
    persistFile,    \* what save() last wrote to store.json
    storeOut,       \* the last call on the store and how it ended
    clock,          \* number of readings taken so far (their time stamps)
    requests        \* the load_colmap requests being served, one per thread

storeVars == <<store, persistFile, storeOut, clock, requests>>

vars == <<cloudFile, o3dAvailable, cloudOut, imagesFile, imagesOut, workspace, wsOut,
          storeVars>>

(***************************************************************************)
(* Bounds of the model.                                                    *)
(***************************************************************************)
MaxRows == 2
MaxCols == 7
MaxLines == 5
MaxCamLines == 2
MaxWsImgLines == 2
MaxPtLines == 1
MaxNewIds == 2
MaxReadings == 1505
MaxEarly == 1
MaxRequests == 2

(***************************************************************************)
(* Numbers.  A float is <<n>>, the rational n / One, or NaN, written as    *)
(* the pair <<0, 0>>.  One is 255 * 20, so that the values k/20 read from  *)
(* a file and their quotients by 255 are all exact; float32 rounding is    *)
(* not modelled.                                                           *)
(***************************************************************************)
One == 255 * 20
NaN == <<0, 0>>
Fin(n) == <<n>>
IsNaN(x) == x = NaN

\* x / 255.0
FDiv255(x) == IF IsNaN(x) THEN NaN ELSE Fin(x[1] \div 255)
\* x * 255
FMul255(x) == IF IsNaN(x) THEN NaN ELSE Fin(x[1] * 255)
\* x > y on floats: every comparison with NaN is false
FGt(x, y) == ~IsNaN(x) /\ ~IsNaN(y) /\ x[1] > y[1]
\* ndarray.clip(lo, hi): NaN stays NaN
FClip(x, lo, hi) ==
    IF IsNaN(x) THEN NaN
    ELSE IF x[1] < lo[1] THEN lo ELSE IF x[1] > hi[1] THEN hi ELSE x

\* the literal 1.5 of load_point_cloud
Threshold == Fin((3 * One) \div 2)

(***************************************************************************)
(* Arrays.  A 2-D array is a sequence of rows of equal length; None is the *)
(* Python None.  Scalar0d(x) is a 0-dimensional array.                     *)
(***************************************************************************)
None == [none |-> TRUE]
Arr2(rows) == [ndim |-> 2, v |-> rows]
Arr1(vec) == [ndim |-> 1, v |-> vec]
Scalar0d(x) == [ndim |-> 0, v |-> x]

NCols(a) == IF Len(a.v) = 0 THEN 0 ELSE Len(a.v[1])

Min2(a, b) == IF a < b THEN a ELSE b

\* a[:, lo:hi] with 0-based, end-exclusive Python bounds
SliceCols(rows, lo, hi) ==
    [i \in 1..Len(rows) |->
        [j \in 1..(IF Min2(hi, Len(rows[i])) > lo THEN Min2(hi, Len(rows[i])) - lo ELSE 0)
            |-> rows[i][lo + j]]]

\* all cells of a block of rows, as a set of <<i, j>> positions
Cells(rows) == UNION {{<<i, j>> : j \in 1..Len(rows[i])} : i \in 1..Len(rows)}

\* ndarray.max() of a non-empty block: NaN if any cell is NaN, else the
\* largest cell (every array the loader reduces has at least one row)
ArrMax(rows) ==
    IF \E p \in Cells(rows) : IsNaN(rows[p[1]][p[2]]) THEN NaN
    ELSE LET p == CHOOSE q \in Cells(rows) :
                    \A r \in Cells(rows) : rows[r[1]][r[2]][1] <= rows[q[1]][q[2]][1]
         IN rows[p[1]][p[2]]

(***************************************************************************)
(* The file behind a path.  kind is what the bytes are: "missing" (no such *)
(* file), "garbage" (not numeric text, not a PLY/PCD), "rich" (a PLY/PCD   *)
(* the backend reads: rows holds its points, 3 or 6 columns) or "text"     *)
(* (whitespace-delimited numeric text, rows x columns).                    *)
(***************************************************************************)
Kinds == {"missing", "garbage", "text", "rich"}
Suffixes == {".xyz", ".ply", ".PCD"}

\* str.lower() on the suffixes of the model
Lower(s) == IF s = ".PCD" THEN ".pcd" ELSE s

\* values the first colour column of a file may hold: 0.05, 1.5, 200, NaN
ColVals == {Fin(One \div 20), Fin((3 * One) \div 2), Fin(200 * One), NaN}

\* values the second and third colour columns may hold: 0.05 and 200
GreenBlueVals == {Fin(One \div 20), Fin(200 * One)}

\* position columns hold 0.0, 1.0 or 2.0; columns past the sixth hold 300.0
PosAt(i, j) == Fin(((i + j) % 3) * One)
ExtraVal == Fin(300 * One)

\* row i of a file with c columns whose colour triple is <<f[1], f[2], f[2]>>
MkRow(i, c, f) ==
    [j \in 1..c |->
        IF j <= 3 THEN PosAt(i, j)
        ELSE IF j = 4 THEN f[1]
        ELSE IF j <= 6 THEN f[2]
        ELSE ExtraVal]

MkMatrix(n, c, fs) == [i \in 1..n |-> MkRow(i, c, fs[i])]

\* the column counts a file of the given kind may have
ColumnCounts(kind) == IF kind = "rich" THEN {3, 6} ELSE 1..MaxCols

(***************************************************************************)
(* services/point_cloud.py                                                 *)
(***************************************************************************)
\* np.hstack([pts, colors])
HStack(a, b) == [i \in 1..Len(a) |-> a[i] \o b[i]]

\* _try_open3d: any exception (no open3d, unreadable file) gives None, and
\* so does a cloud without points; colours are kept when there is one per
\* point
TryOpen3d(file, avail) ==
    IF ~avail \/ file.kind # "rich" THEN None
    ELSE LET pts == SliceCols(file.rows, 0, 3)
             colors == IF NCols(Arr2(file.rows)) >= 6
                       THEN SliceCols(file.rows, 3, 6) ELSE <<>>
         IN IF Len(pts) = 0 THEN None
            ELSE IF Len(colors) = Len(pts) THEN Arr2(HStack(pts, colors))
            ELSE Arr2(pts)

\* np.loadtxt(path, dtype=np.float32) on numeric text: the result is
\* squeezed, so no data gives an empty vector, one number a 0-d array, one
\* row or one column a vector
LoadTxt(rows) ==
    IF Len(rows) = 0 THEN Arr1(<<>>)
    ELSE IF Len(rows) = 1 /\ Len(rows[1]) = 1 THEN Scalar0d(rows[1][1])
    ELSE IF Len(rows) = 1 THEN Arr1(rows[1])
    ELSE IF Len(rows[1]) = 1 THEN Arr1([i \in 1..Len(rows) |-> rows[i][1]])
    ELSE Arr2(rows)

\* _load_xyz: loadtxt raises on a missing file and on anything that is not
\* numeric text; a vector is reshaped to one row
LoadXyz(file) ==
    IF file.kind # "text" THEN None
    ELSE LET data == LoadTxt(file.rows)
         IN IF data.ndim = 1 THEN Arr2(<<data.v>>) ELSE data

\* data[:, 3:6] /= 255.0
ScaleColors(rows) ==
    [i \in 1..Len(rows) |->
        [j \in 1..Len(rows[i]) |->
            IF j \in 4..6 THEN FDiv255(rows[i][j]) ELSE rows[i][j]]]

\* the same test with the threshold 1.0
LooksLike255Over1(rows) == FGt(ArrMax(SliceCols(rows, 3, 6)), Fin(One))

\* data[:, 3:6].max() > 1.5
LooksLike255(rows) == FGt(ArrMax(SliceCols(rows, 3, 6)), Threshold)

Raised(exc) == [raised |-> exc]
Cloud(rows, hc) == [raised |-> "", data |-> rows, has_colors |-> hc]

\* load_point_cloud up to "if data is None": the backend for .ply and .pcd,
\* then the text loader
RawData(file, avail) ==
    LET suffix == Lower(file.suffix)
        d1 == IF suffix \in {".ply", ".pcd"} THEN TryOpen3d(file, avail) ELSE None
    IN IF d1 = None THEN LoadXyz(file) ELSE d1

\* load_point_cloud from "if data is None: raise" on
LoadTail(data) ==
    IF data = None THEN Raised("ValueError")
    ELSE IF data.ndim < 2 THEN Raised("IndexError")   \* data.shape[1]
    ELSE IF NCols(data) >= 6
         THEN Cloud(SliceCols(IF LooksLike255(data.v)
                              THEN ScaleColors(data.v) ELSE data.v, 0, 6), TRUE)
         ELSE Cloud(SliceCols(data.v, 0, 3), FALSE)

\* load_point_cloud
LoadPointCloud(file, avail) == LoadTail(RawData(file, avail))

\* little-endian IEEE-754 single of the position values of the model
F32LE(x) ==
    CASE x = Fin(0) -> <<0, 0, 0, 0>>
      [] x = Fin(One) -> <<0, 0, 128, 63>>
      [] x = Fin(2 * One) -> <<0, 0, 0, 64>>

\* struct.pack("<I", n)
U32LE(n) == <<n % 256, (n \div 256) % 256, (n \div 65536) % 256, (n \div 16777216) % 256>>

RECURSIVE Flatten(_)
Flatten(ss) == IF Len(ss) = 0 THEN <<>> ELSE Head(ss) \o Flatten(Tail(ss))

\* ndarray.tobytes() of a float32 block, row-major
F32Bytes(rows) ==
    Flatten([i \in 1..Len(rows) |-> Flatten([j \in 1..Len(rows[i]) |-> F32LE(rows[i][j])])])

\* the casts of NaN to uint8 the model lets a build produce
NaNCasts == {0, 255}

\* (c * 255).clip(0, 255).astype(np.uint8): the cast drops the fraction;
\* casting NaN is undefined and gives the build's value nanByte
ColorByte(c, nanByte) ==
    LET t == FClip(FMul255(c), Fin(0), Fin(255 * One))
    IN IF IsNaN(t) THEN nanByte ELSE t[1] \div One

ColorBytes(rows, nanByte) ==
    Flatten([i \in 1..Len(rows) |->
                [j \in 1..Len(rows[i]) |-> ColorByte(rows[i][j], nanByte)]])

\* to_binary_buffer
ToBinaryBuffer(file, avail, nanByte) ==
    LET r == LoadPointCloud(file, avail)
    IN IF r.raised # "" THEN [raised |-> r.raised]
       ELSE LET n == Len(r.data)
                head == U32LE(n) \o <<IF r.has_colors THEN 1 ELSE 0>>
                pos == F32Bytes(SliceCols(r.data, 0, 3))
                col == IF r.has_colors
                       THEN ColorBytes(SliceCols(r.data, 3, 6), nanByte) ELSE <<>>
            IN [raised |-> "", cloud |-> r, buf |-> head \o pos \o col]

\* arr[:, j].min() and .max() over the rows of a block with at least one
\* row: NaN if any cell of the column is NaN
ColMin(rows, j) ==
    IF \E i \in 1..Len(rows) : IsNaN(rows[i][j]) THEN NaN
    ELSE rows[CHOOSE i \in 1..Len(rows) :
                 \A k \in 1..Len(rows) : rows[i][j][1] <= rows[k][j][1]][j]
ColMax(rows, j) ==
    IF \E i \in 1..Len(rows) : IsNaN(rows[i][j]) THEN NaN
    ELSE rows[CHOOSE i \in 1..Len(rows) :
                 \A k \in 1..Len(rows) : rows[i][j][1] >= rows[k][j][1]][j]

\* point_cloud_info: the reductions over axis 0 give one entry per column
\* of arr[:, :3], and mins[0], mins[1], mins[2] raise IndexError when the
\* array has fewer than three columns
PointCloudInfo(file, avail) ==
    LET r == LoadPointCloud(file, avail)
    IN IF r.raised # "" THEN Raised(r.raised)
       ELSE LET xyz == SliceCols(r.data, 0, 3)
            IN IF NCols(Arr2(xyz)) < 3 THEN Raised("IndexError")
               ELSE [raised |-> "",
                     info |-> [num_points |-> Len(r.data),
                               bounds_min |-> [j \in 1..3 |-> ColMin(xyz, j)],
                               bounds_max |-> [j \in 1..3 |-> ColMax(xyz, j)],
                               has_colors |-> r.has_colors,
                               has_normals |-> FALSE]]

\* a response of the API: the status code and, for an error, its detail
Response404 == [status |-> 404, detail |-> "Point cloud file not found"]
Response400(exc) == [status |-> 400, detail |-> exc]
Response200(body) == [status |-> 200, body |-> body]
Unhandled(exc) == [status |-> 500, detail |-> exc]

\* the route with "except ValueError" in place of "except Exception"
GetPointCloudInfoValueErrorOnly(file, avail) ==
    IF file.kind = "missing" THEN Response404
    ELSE LET r == PointCloudInfo(file, avail)
         IN IF r.raised = "ValueError" THEN Response400(r.raised)
            ELSE IF r.raised # "" THEN Unhandled(r.raised)
            ELSE Response200(r.info)

\* routes/pointclouds.py get_point_cloud_info
GetPointCloudInfo(file, avail) ==
    IF file.kind = "missing" THEN Response404
    ELSE LET r == PointCloudInfo(file, avail)
         IN IF r.raised # "" THEN Response400(r.raised)
            ELSE Response200(r.info)

(***************************************************************************)
(* services/building_store.py.  The store is a record of its dicts; a dict *)
(* is a function from its keys.  buildings and floors never change after   *)
(* construction and are left out.  Ids returned by _uid() are numbers: the *)
(* seeded sensors have the ids 101..110, and every later _uid() value is   *)
(* taken to differ from all ids then in use (the chance that twelve random *)
(* hex digits repeat is not modelled).                                     *)
(***************************************************************************)
Idle == [op |-> "none"]

EmptyDict == [k \in {} |-> None]
Put(d, k, v) == [x \in DOMAIN d \cup {k} |-> IF x = k THEN v ELSE d[x]]
Pop(d, k) == [x \in DOMAIN d \ {k} |-> d[x]]
Get(d, k, default) == IF k \in DOMAIN d THEN d[k] ELSE default

\* "x in list" and "[e for e in list if e != x]"
Contains(list, x) == \E i \in 1..Len(list) : list[i] = x
Without(list, x) == SelectSeq(list, LAMBDA e : e # x)

\* "Keep only last 1000 readings in memory": the two literals of the trim
HistoryCap == 1000
HistoryKeep == 500

\* SensorReading: timestamp is the arrival number of the reading
Reading(sensor_id, timestamp, value) ==
    [sensor_id |-> sensor_id, timestamp |-> timestamp, value |-> value]

\* room_defs and sensor_seeds of _create_demo_data (the room of each seed)
RoomIds ==
    {"room_lobby", "room_reception", "room_server", "room_open_office", "room_meeting_a",
     "room_kitchen", "room_exec", "room_meeting_b", "room_lounge"}
SensorSeeds ==
    <<"room_lobby", "room_lobby", "room_server", "room_server", "room_server",
      "room_open_office", "room_open_office", "room_meeting_a", "room_kitchen", "room_exec">>

\* the _uid() of the k-th seeded sensor
SeedId(k) == 100 + k
SeedIds == [k \in 1..Len(SensorSeeds) |-> SeedId(k)]

\* the store after _create_demo_data: every seed is in sensors with a first
\* reading and its id is appended to its room; nothing else is filled
DemoStore ==
    [rooms |-> [r \in RoomIds |->
                  [sensors |-> SelectSeq(SeedIds, LAMBDA sid : SensorSeeds[sid - 100] = r),
                   placed_objects |-> <<>>,
                   images |-> <<>>]],
     sensors |-> [sid \in {SeedId(k) : k \in 1..Len(SensorSeeds)} |->
                    [room_id |-> SensorSeeds[sid - 100],
                     last_reading |-> Reading(sid, 0, 0)]],
     placed_objects |-> EmptyDict,
     colmap_cameras |-> EmptyDict,
     colmap_images |-> EmptyDict,
     sensor_history |-> EmptyDict]

\* the dicts save() writes to store.json
Saved(st) == [rooms |-> st.rooms, sensors |-> st.sensors, placed_objects |-> st.placed_objects]

\* how a call on the store ends: the store it leaves and what it raised
Done(st) == [store |-> st, raised |-> ""]
KeyError(st) == [store |-> st, raised |-> "KeyError"]

\* add_sensor, sid being the value of _uid()
AddSensor(st, room_id, sid) ==
    IF room_id \notin DOMAIN st.rooms THEN KeyError(st)
    ELSE Done([st EXCEPT
                 !.sensors = Put(@, sid, [room_id |-> room_id, last_reading |-> None]),
                 !.rooms[room_id].sensors = Append(@, sid)])

\* add_placed_object, oid being the value of _uid()
AddPlacedObject(st, room_id, oid) ==
    IF room_id \notin DOMAIN st.rooms THEN KeyError(st)
    ELSE Done([st EXCEPT
                 !.placed_objects = Put(@, oid, [room_id |-> room_id]),
                 !.rooms[room_id].placed_objects = Append(@, oid)])

\* a removal that leaves the room's list as it is
RemoveSensorFromDictOnly(st, sensor_id) == Done([st EXCEPT !.sensors = Pop(@, sensor_id)])

\* remove_sensor
RemoveSensor(st, sensor_id) ==
    IF sensor_id \notin DOMAIN st.sensors THEN Done(st)
    ELSE LET room_id == st.sensors[sensor_id].room_id
             popped == [st EXCEPT !.sensors = Pop(@, sensor_id)]
         IN IF room_id \in DOMAIN st.rooms
            THEN Done([popped EXCEPT !.rooms[room_id].sensors = Without(@, sensor_id)])
            ELSE Done(popped)

\* remove_placed_object
RemovePlacedObject(st, object_id) ==
    IF object_id \notin DOMAIN st.placed_objects THEN Done(st)
    ELSE LET room_id == st.placed_objects[object_id].room_id
             popped == [st EXCEPT !.placed_objects = Pop(@, object_id)]
         IN IF room_id \in DOMAIN st.rooms
            THEN Done([popped EXCEPT !.rooms[room_id].placed_objects = Without(@, object_id)])
            ELSE Done(popped)

\* a history that is never cut
TrimHistoryKeepAll(hist) == hist

\* "if len(history) > 1000: history = history[-500:]"
TrimHistory(hist) ==
    IF Len(hist) > HistoryCap
    THEN SubSeq(hist, Len(hist) - HistoryKeep + 1, Len(hist))
    ELSE hist

\* update_sensor_reading, now being the time stamp of the new reading
UpdateSensorReading(st, sensor_id, value, now) ==
    IF sensor_id \notin DOMAIN st.sensors THEN KeyError(st)
    ELSE LET reading == Reading(sensor_id, now, value)
             hist == Append(Get(st.sensor_history, sensor_id, <<>>), reading)
         IN Done([st EXCEPT
                    !.sensors[sensor_id].last_reading = reading,
                    !.sensor_history = Put(@, sensor_id, TrimHistory(hist))])

\* {x.id: x for x in list}: a later entry replaces an earlier one of its id
DictById(list) ==
    [k \in {list[i].id : i \in 1..Len(list)} |->
        list[CHOOSE i \in 1..Len(list) :
                 /\ list[i].id = k
                 /\ \A j \in 1..Len(list) : list[j].id = k => j <= i]]

\* the two assignments of set_colmap_data
SetColmapCameras(st, cameras) == [st EXCEPT !.colmap_cameras = DictById(cameras)]
SetColmapImages(st, images) == [st EXCEPT !.colmap_images = DictById(images)]

\* set_colmap_data
SetColmapData(st, cameras, images) == SetColmapImages(SetColmapCameras(st, cameras), images)

\* an assignment that appends the name without looking for it in the list
AssignImageToRoomAppendAlways(st, image_id, room_id) ==
    IF image_id \notin DOMAIN st.colmap_images THEN Done(st)
    ELSE LET set == [st EXCEPT !.colmap_images[image_id].room_id = room_id]
         IN IF room_id \notin DOMAIN st.rooms THEN Done(set)
            ELSE Done([set EXCEPT
                         !.rooms[room_id].images = Append(@, st.colmap_images[image_id].name)])

\* assign_image_to_room
AssignImageToRoom(st, image_id, room_id) ==
    IF image_id \notin DOMAIN st.colmap_images THEN Done(st)
    ELSE LET set == [st EXCEPT !.colmap_images[image_id].room_id = room_id]
             img_name == st.colmap_images[image_id].name
         IN IF room_id \notin DOMAIN st.rooms THEN Done(set)
            ELSE IF Contains(st.rooms[room_id].images, img_name) THEN Done(set)
            ELSE Done([set EXCEPT !.rooms[room_id].images = Append(@, img_name)])

\* the store of a process that serves no store request
StoreAtRest ==
    /\ store = DemoStore
    /\ persistFile = Saved(DemoStore)
    /\ storeOut = Idle
    /\ clock = 0
    /\ requests = <<>>

(***************************************************************************)
(* Specification of the point-cloud functions.                             *)
(***************************************************************************)

\* a file of a workspace directory that does not exist / that holds lines
Absent == [exists |-> FALSE, lines |-> <<>>]
Present(lines) == [exists |-> TRUE, lines |-> lines]

CloudInit ==
    /\ \E s \in Suffixes, k \in Kinds :
         IF k \in {"missing", "garbage"}
         THEN cloudFile = [suffix |-> s, kind |-> k, rows |-> <<>>]
         ELSE \E n \in 0..MaxRows, c \in ColumnCounts(k) :
                \E fs \in [1..n -> ColVals \X GreenBlueVals] :
                   cloudFile = [suffix |-> s, kind |-> k, rows |-> MkMatrix(n, c, fs)]
    /\ o3dAvailable \in BOOLEAN
    /\ cloudOut = Idle
    /\ imagesFile = <<>>
    /\ imagesOut = Idle
    /\ workspace = [cameras |-> Absent, images |-> Absent, points |-> Absent]
    /\ wsOut = Idle
    /\ StoreAtRest

CallLoadPointCloud ==
    /\ cloudOut = Idle
    /\ cloudOut' = [op |-> "load_point_cloud", out |-> LoadPointCloud(cloudFile, o3dAvailable)]
    /\ UNCHANGED <<cloudFile, o3dAvailable, imagesFile, imagesOut, workspace, wsOut,
                   storeVars>>

CallToBinaryBuffer ==
    /\ cloudOut = Idle
    /\ \E nanByte \in NaNCasts :
         cloudOut' = [op |-> "to_binary_buffer",
                      out |-> ToBinaryBuffer(cloudFile, o3dAvailable, nanByte)]
    /\ UNCHANGED <<cloudFile, o3dAvailable, imagesFile, imagesOut, workspace, wsOut,
                   storeVars>>

CallPointCloudInfo ==
    /\ cloudOut = Idle
    /\ cloudOut' = [op |-> "point_cloud_info", out |-> PointCloudInfo(cloudFile, o3dAvailable)]
    /\ UNCHANGED <<cloudFile, o3dAvailable, imagesFile, imagesOut, workspace, wsOut,
                   storeVars>>

CallGetPointCloudInfo ==
    /\ cloudOut = Idle
    /\ cloudOut' = [op |-> "get_point_cloud_info",
                    out |-> GetPointCloudInfo(cloudFile, o3dAvailable)]
    /\ UNCHANGED <<cloudFile, o3dAvailable, imagesFile, imagesOut, workspace, wsOut,
                   storeVars>>

CloudNext ==
    \/ CallLoadPointCloud
    \/ CallToBinaryBuffer
    \/ CallPointCloudInfo
    \/ CallGetPointCloudInfo

SpecCloud == CloudInit /\ [][CloudNext]_vars

(***************************************************************************)
(* load_point_cloud statement by statement.  While a load runs, cloudOut   *)
(* holds the next statement (pc), the local variable data and the loaders  *)
(* called so far, in call order.                                           *)
(***************************************************************************)
Loading(pc, data, calls) == [op |-> "loading", pc |-> pc, data |-> data, calls |-> calls]

\* a load that runs the text loader whatever the backend returned
TextLoaderAlways(data) == TRUE

\* "if data is None:" before the text loader
TextLoaderNeeded(data) == data = None

\* path = Path(path); suffix = path.suffix.lower(); data = None
BeginLoad ==
    /\ cloudOut = Idle
    /\ cloudOut' = Loading("suffix", None, <<>>)
    /\ UNCHANGED <<cloudFile, o3dAvailable, imagesFile, imagesOut, workspace, wsOut,
                   storeVars>>

\* if suffix in (".ply", ".pcd"): data = _try_open3d(path)
StepBackend ==
    /\ cloudOut.op = "loading" /\ cloudOut.pc = "suffix"
    /\ cloudOut' =
          IF Lower(cloudFile.suffix) \in {".ply", ".pcd"}
          THEN Loading("text", TryOpen3d(cloudFile, o3dAvailable),
                       Append(cloudOut.calls, "_try_open3d"))
          ELSE Loading("text", cloudOut.data, cloudOut.calls)
    /\ UNCHANGED <<cloudFile, o3dAvailable, imagesFile, imagesOut, workspace, wsOut,
                   storeVars>>

\* if data is None: data = _load_xyz(path)
StepText ==
    /\ cloudOut.op = "loading" /\ cloudOut.pc = "text"
    /\ cloudOut' =
          IF TextLoaderNeeded(cloudOut.data)
          THEN Loading("tail", LoadXyz(cloudFile), Append(cloudOut.calls, "_load_xyz"))
          ELSE Loading("tail", cloudOut.data, cloudOut.calls)
    /\ UNCHANGED <<cloudFile, o3dAvailable, imagesFile, imagesOut, workspace, wsOut,
                   storeVars>>

\* if data is None: raise ValueError(...), and the rest of the function
StepTail ==
    /\ cloudOut.op = "loading" /\ cloudOut.pc = "tail"
    /\ cloudOut' = [op |-> "loaded", calls |-> cloudOut.calls, out |-> LoadTail(cloudOut.data)]
    /\ UNCHANGED <<cloudFile, o3dAvailable, imagesFile, imagesOut, workspace, wsOut,
                   storeVars>>

LoadNext == BeginLoad \/ StepBackend \/ StepText \/ StepTail

SpecLoad == CloudInit /\ [][LoadNext]_vars

(***************************************************************************)
(* services/colmap_parser.py.  A line of a text file is the sequence of    *)
(* its whitespace-delimited tokens: <<>> is a blank line, and a line whose *)
(* first token is "#" is a comment line.                                   *)
(***************************************************************************)
IntToks == {"0", "1", "2", "3", "-1"}
FloatToks == IntToks \cup {"0.5"}

\* int(t) for the tokens int() accepts
IntOf(t) ==
    CASE t = "0" -> 0 [] t = "1" -> 1 [] t = "2" -> 2 [] t = "3" -> 3 [] t = "-1" -> 0 - 1

\* float(t) for the tokens float() accepts
FloatOf(t) == IF t = "0.5" THEN Fin(One \div 2) ELSE Fin(IntOf(t) * One)

\* _COMMENT.match(line)
IsComment(line) == Len(line) > 0 /\ line[1] = "#"

\* "_COMMENT.match(line) or not line.strip()"
Skipped(line) == IsComment(line) \/ Len(line) = 0

\* the optional room of a ColmapImage, not set by the parser
NoRoom == "<None>"

\* what evaluating a conversion gives: a value, or the exception it raises.
\* The ValueError of int() and float() carries the literal and nothing else;
\* parts[k] on a short line raises IndexError
Val(v) == [raised |-> "", v |-> v]
ValueError(t) == [raised |-> "ValueError", literal |-> t]
IndexError == [raised |-> "IndexError"]

ToInt(parts, k) ==
    IF k > Len(parts) THEN IndexError
    ELSE IF parts[k] \in IntToks THEN Val(IntOf(parts[k])) ELSE ValueError(parts[k])
ToFloat(parts, k) ==
    IF k > Len(parts) THEN IndexError
    ELSE IF parts[k] \in FloatToks THEN Val(FloatOf(parts[k])) ELSE ValueError(parts[k])
ToStr(parts, k) == IF k > Len(parts) THEN IndexError ELSE Val(parts[k])

\* the first exception among evaluations made in order, or none
RECURSIVE FirstRaised(_)
FirstRaised(evs) ==
    IF Len(evs) = 0 THEN Val(0)
    ELSE IF Head(evs).raised # "" THEN Head(evs) ELSE FirstRaised(Tail(evs))

\* the ColmapImage(...) expression of parse_images_txt on one odd line
ImageOf(parts) ==
    LET evs == <<ToInt(parts, 1), ToFloat(parts, 2), ToFloat(parts, 3), ToFloat(parts, 4),
                 ToFloat(parts, 5), ToFloat(parts, 6), ToFloat(parts, 7), ToFloat(parts, 8),
                 ToInt(parts, 9), ToStr(parts, 10)>>
        bad == FirstRaised(evs)
    IN IF bad.raised # "" THEN bad
       ELSE Val([id |-> evs[1].v,
                 rotation |-> [w |-> evs[2].v, x |-> evs[3].v, y |-> evs[4].v, z |-> evs[5].v],
                 translation |-> [x |-> evs[6].v, y |-> evs[7].v, z |-> evs[8].v],
                 camera_id |-> evs[9].v,
                 name |-> evs[10].v,
                 room_id |-> NoRoom])

\* the step without the skip of the POINTS2D line
AfterPairNoSkip(i) == i + 1

\* "i += 2  # skip the POINTS2D line"
AfterPair(i) == i + 2

\* the while loop of parse_images_txt from index i (1-based) with the
\* records emitted so far
RECURSIVE ImagesLoop(_, _, _)
ImagesLoop(lines, i, images) ==
    IF i > Len(lines) THEN [raised |-> "", images |-> images]
    ELSE IF Len(lines[i]) < 10 THEN ImagesLoop(lines, i + 1, images)   \* i += 1
    ELSE LET img == ImageOf(lines[i])
         IN IF img.raised # "" THEN img
            ELSE ImagesLoop(lines, AfterPair(i), Append(images, img.v))

\* parse_images_txt
ParseImagesTxt(file) ==
    ImagesLoop(SelectSeq(file, LAMBDA l : ~Skipped(l)), 1, <<>>)

\* a camera record that drops the trailing parameters
CameraOfNoParams(parts) ==
    LET head == <<ToInt(parts, 1), ToStr(parts, 2), ToInt(parts, 3), ToInt(parts, 4)>>
        bad == FirstRaised(head)
    IN IF bad.raised # "" THEN bad
       ELSE Val([id |-> head[1].v, model |-> head[2].v, width |-> head[3].v,
                 height |-> head[4].v, params |-> <<>>])

\* the ColmapCamera(...) expression of parse_cameras_txt on one line
CameraOf(parts) ==
    LET head == <<ToInt(parts, 1), ToStr(parts, 2), ToInt(parts, 3), ToInt(parts, 4)>>
        params == [k \in 1..(IF Len(parts) > 4 THEN Len(parts) - 4 ELSE 0) |->
                      ToFloat(parts, 4 + k)]
        bad == FirstRaised(head \o params)
    IN IF bad.raised # "" THEN bad
       ELSE Val([id |-> head[1].v, model |-> head[2].v, width |-> head[3].v,
                 height |-> head[4].v,
                 params |-> [k \in 1..Len(params) |-> params[k].v]])

\* the dict of parse_points3d_txt on one line
PointOf(parts) ==
    LET evs == <<ToInt(parts, 1), ToFloat(parts, 2), ToFloat(parts, 3), ToFloat(parts, 4),
                 ToInt(parts, 5), ToInt(parts, 6), ToInt(parts, 7), ToFloat(parts, 8)>>
        bad == FirstRaised(evs)
    IN IF bad.raised # "" THEN bad
       ELSE Val([id |-> evs[1].v, x |-> evs[2].v, y |-> evs[3].v, z |-> evs[4].v,
                 r |-> evs[5].v, g |-> evs[6].v, b |-> evs[7].v, error |-> evs[8].v])

\* the record built from one line of cameras.txt or points3D.txt
RecordOf(key, parts) == IF key = "cameras" THEN CameraOf(parts) ELSE PointOf(parts)

\* "for line in f": one record per line that is not skipped, the first
\* exception ending the loop
RECURSIVE EachLine(_, _, _)
EachLine(key, lines, acc) ==
    IF Len(lines) = 0 THEN [raised |-> "", items |-> acc]
    ELSE IF Skipped(Head(lines)) THEN EachLine(key, Tail(lines), acc)
    ELSE LET r == RecordOf(key, Head(lines))
         IN IF r.raised # "" THEN r ELSE EachLine(key, Tail(lines), Append(acc, r.v))

\* parse_cameras_txt
ParseCamerasTxt(file) == EachLine("cameras", file, <<>>)

\* parse_points3d_txt
ParsePoints3dTxt(file) == EachLine("points", file, <<>>)

\* the three parses of load_colmap_workspace, each on its own file
ParsedFile(ws, key) ==
    CASE key = "cameras" -> ParseCamerasTxt(ws.cameras.lines)
      [] key = "images" ->
            LET r == ParseImagesTxt(ws.images.lines)
            IN IF r.raised # "" THEN r ELSE [raised |-> "", items |-> r.images]
      [] key = "points" -> ParsePoints3dTxt(ws.points.lines)

WsKeys == <<"cameras", "images", "points">>

\* a loader that gives an absent file's key an empty list
LoadColmapWorkspaceAllKeys(ws) ==
    LET bad == FirstRaised([k \in 1..3 |->
                   IF ws[WsKeys[k]].exists THEN ParsedFile(ws, WsKeys[k]) ELSE Val(0)])
    IN IF bad.raised # "" THEN bad
       ELSE [raised |-> "",
             result |-> [key \in {"cameras", "images", "points"} |->
                            IF ws[key].exists THEN ParsedFile(ws, key).items ELSE <<>>]]

\* load_colmap_workspace: the files that exist are parsed in the order
\* cameras, images, points; an exception of a parse leaves the function
LoadColmapWorkspace(ws) ==
    LET bad == FirstRaised([k \in 1..3 |->
                   IF ws[WsKeys[k]].exists THEN ParsedFile(ws, WsKeys[k]) ELSE Val(0)])
    IN IF bad.raised # "" THEN bad
       ELSE [raised |-> "",
             result |-> [key \in {k \in {"cameras", "images", "points"} : ws[k].exists} |->
                            ParsedFile(ws, key).items]]

(***************************************************************************)
(* Specification of parse_images_txt.                                      *)
(***************************************************************************)
ImageLine(id, name) == <<id, "1", "0", "0", "0", "0.5", "0", "0", "1", name>>
ShortLine == <<"0.5", "0.5", "1">>
LongTrack == <<"0.5", "0.5", "1", "0.5", "1", "2", "1", "0.5", "3", "2", "2", "-1">>
LongIntTrack == <<"3", "2", "1", "0", "1", "2", "2", "1", "3", "2", "2", "-1">>
CommentLine == <<"#", "Image", "list">>
BlankLine == <<>>

ImgLines ==
    {ImageLine("1", "a.jpg"), ImageLine("2", "b.jpg"), ShortLine, LongTrack,
     LongIntTrack, CommentLine, BlankLine}

SeqsUpTo(S, n) == UNION {[1..k -> S] : k \in 0..n}

ImagesInit ==
    /\ imagesFile \in SeqsUpTo(ImgLines, MaxLines)
    /\ imagesOut = Idle
    /\ cloudFile = [suffix |-> ".xyz", kind |-> "missing", rows |-> <<>>]
    /\ o3dAvailable = FALSE
    /\ cloudOut = Idle
    /\ workspace = [cameras |-> Absent, images |-> Absent, points |-> Absent]
    /\ wsOut = Idle
    /\ StoreAtRest

CallParseImagesTxt ==
    /\ imagesOut = Idle
    /\ imagesOut' = [op |-> "parse_images_txt", out |-> ParseImagesTxt(imagesFile)]
    /\ UNCHANGED <<cloudFile, o3dAvailable, cloudOut, imagesFile, workspace, wsOut,
                   storeVars>>

ImagesNext == CallParseImagesTxt

SpecImages == ImagesInit /\ [][ImagesNext]_vars

(***************************************************************************)
(* Specification of load_colmap_workspace.                                 *)
(***************************************************************************)
CamLines ==
    {<<"1", "PINHOLE", "2", "3", "0.5", "0.5">>, <<"2", "SIMPLE_PINHOLE", "3", "2">>,
     <<"3", "PINHOLE", "x", "3", "0.5">>, <<"3", "PINHOLE", "2">>, CommentLine}

WsImgLines ==
    {ImageLine("1", "a.jpg"), <<"2", "1", "0", "x", "0", "0.5", "0", "0", "1", "b.jpg">>,
     ShortLine}

PtLines ==
    {<<"1", "0.5", "0", "1", "2", "3", "0", "0.5", "1", "2">>,
     <<"2", "0.5", "0", "1", "2", "x", "0", "0.5">>, CommentLine}

FilesOf(S, n) == {Absent} \cup {Present(l) : l \in SeqsUpTo(S, n)}

WorkspaceInit ==
    /\ workspace \in [cameras : FilesOf(CamLines, MaxCamLines),
                      images : FilesOf(WsImgLines, MaxWsImgLines),
                      points : FilesOf(PtLines, MaxPtLines)]
    /\ wsOut = Idle
    /\ cloudFile = [suffix |-> ".xyz", kind |-> "missing", rows |-> <<>>]
    /\ o3dAvailable = FALSE
    /\ cloudOut = Idle
    /\ imagesFile = <<>>
    /\ imagesOut = Idle
    /\ StoreAtRest

CallLoadColmapWorkspace ==
    /\ wsOut = Idle
    /\ wsOut' = [op |-> "load_colmap_workspace", out |-> LoadColmapWorkspace(workspace)]
    /\ UNCHANGED <<cloudFile, o3dAvailable, cloudOut, imagesFile, imagesOut, workspace,
                   storeVars>>

CallParseCamerasTxt ==
    /\ wsOut = Idle
    /\ workspace.cameras.exists
    /\ wsOut' = [op |-> "parse_cameras_txt", out |-> ParseCamerasTxt(workspace.cameras.lines)]
    /\ UNCHANGED <<cloudFile, o3dAvailable, cloudOut, imagesFile, imagesOut, workspace,
                   storeVars>>

WorkspaceNext == CallLoadColmapWorkspace \/ CallParseCamerasTxt

SpecWorkspace == WorkspaceInit /\ [][WorkspaceNext]_vars

(***************************************************************************)
(* Specification of the sensor and object calls on the store.              *)
(***************************************************************************)
\* the variables of the parsers and loaders while no file is handled
ParsersAtRest ==
    /\ cloudFile = [suffix |-> ".xyz", kind |-> "missing", rows |-> <<>>]
    /\ o3dAvailable = FALSE
    /\ cloudOut = Idle
    /\ imagesFile = <<>>
    /\ imagesOut = Idle
    /\ workspace = [cameras |-> Absent, images |-> Absent, points |-> Absent]
    /\ wsOut = Idle

parserVars == <<cloudFile, o3dAvailable, cloudOut, imagesFile, imagesOut, workspace, wsOut>>

\* the ids _uid() may return after the seeding, and an id nothing ever had
NewIds == {SeedId(Len(SensorSeeds) + k) : k \in 1..MaxNewIds}
UnknownId == SeedId(0)

\* the values _uid() may return in a store: the ids not in use
FreshIds(st) == NewIds \ (DOMAIN st.sensors \cup DOMAIN st.placed_objects)

\* the room ids and the sensor and object ids the calls are made with
CallRooms == {"room_lobby", "room_lounge", "room_nowhere"}
CallIds == {SeedId(1), SeedId(2), SeedId(3)} \cup NewIds \cup {UnknownId}

\* a call on the store: r is how it ended; save() is reached when the call
\* raised nothing and saves are made by this kind of call
Applied(op, args, r, saves) ==
    /\ store' = r.store
    /\ persistFile' = IF saves /\ r.raised = "" THEN Saved(r.store) ELSE persistFile
    /\ storeOut' = [op |-> op, args |-> args, raised |-> r.raised]

StoreInit == StoreAtRest /\ ParsersAtRest

\* _uid() is reached only when the room exists
CallAddSensor ==
    /\ \E room_id \in CallRooms :
         \E sid \in IF room_id \in DOMAIN store.rooms THEN FreshIds(store) ELSE {UnknownId} :
            Applied("add_sensor", [room_id |-> room_id], AddSensor(store, room_id, sid), TRUE)
    /\ UNCHANGED <<clock, requests, parserVars>>

CallAddPlacedObject ==
    /\ \E room_id \in CallRooms :
         \E oid \in IF room_id \in DOMAIN store.rooms THEN FreshIds(store) ELSE {UnknownId} :
            Applied("add_placed_object", [room_id |-> room_id],
                    AddPlacedObject(store, room_id, oid), TRUE)
    /\ UNCHANGED <<clock, requests, parserVars>>

CallRemoveSensor ==
    /\ \E sensor_id \in CallIds :
         Applied("remove_sensor", [sensor_id |-> sensor_id], RemoveSensor(store, sensor_id), TRUE)
    /\ UNCHANGED <<clock, requests, parserVars>>

CallRemovePlacedObject ==
    /\ \E object_id \in CallIds :
         Applied("remove_placed_object", [object_id |-> object_id],
                 RemovePlacedObject(store, object_id), TRUE)
    /\ UNCHANGED <<clock, requests, parserVars>>

StoreNext ==
    \/ CallAddSensor
    \/ CallAddPlacedObject
    \/ CallRemoveSensor
    \/ CallRemovePlacedObject

SpecStore == StoreInit /\ [][StoreNext]_vars

(***************************************************************************)
(* Specification of update_sensor_reading.  The readings of one seeded     *)
(* sensor are followed up to MaxReadings; a second sensor is read only     *)
(* among the first MaxEarly readings.                                      *)
(***************************************************************************)
\* the value sent with the reading that arrives as number t
ValueAt(t) == t % 3

\* the sensor ids a reading may name when t readings have been taken
ReadingIds(t) ==
    {SeedId(1), UnknownId} \cup (IF t < MaxEarly THEN {SeedId(3)} ELSE {})

\* time.time() is read only when the sensor exists
CallUpdateSensorReading ==
    /\ clock < MaxReadings
    /\ \E sensor_id \in ReadingIds(clock) :
         LET r == UpdateSensorReading(store, sensor_id, ValueAt(clock + 1), clock + 1)
         IN /\ Applied("update_sensor_reading", [sensor_id |-> sensor_id], r, TRUE)
            /\ clock' = IF r.raised = "" THEN clock + 1 ELSE clock
    /\ UNCHANGED <<requests, parserVars>>

HistoryNext == CallUpdateSensorReading

SpecHistory == StoreInit /\ [][HistoryNext]_vars

(***************************************************************************)
(* Specification of set_colmap_data and assign_image_to_room.              *)
(***************************************************************************)
\* the records the parsers build for a camera line and for an image line
CameraRecord(id) == CameraOf(<<id, "PINHOLE", "2", "3", "0.5", "0.5">>).v
ImageRecord(id, name) == ImageOf(ImageLine(id, name)).v

\* the camera and image lists set_colmap_data is called with: nothing, one
\* image, two images of one name, two images of two names
AssignLoads ==
    {[cameras |-> <<>>, images |-> <<>>],
     [cameras |-> <<CameraRecord("1")>>, images |-> <<ImageRecord("1", "a.jpg")>>],
     [cameras |-> <<CameraRecord("1")>>,
      images |-> <<ImageRecord("1", "a.jpg"), ImageRecord("2", "a.jpg")>>],
     [cameras |-> <<CameraRecord("1")>>,
      images |-> <<ImageRecord("1", "a.jpg"), ImageRecord("2", "b.jpg")>>]}

\* the image ids an assignment may name; no load has an image 3
AssignImageIds == 1..3

CallSetColmapData ==
    /\ \E load \in AssignLoads :
         Applied("set_colmap_data", load,
                 Done(SetColmapData(store, load.cameras, load.images)), FALSE)
    /\ UNCHANGED <<clock, requests, parserVars>>

CallAssignImageToRoom ==
    /\ \E image_id \in AssignImageIds, room_id \in CallRooms :
         Applied("assign_image_to_room", [image_id |-> image_id, room_id |-> room_id],
                 AssignImageToRoom(store, image_id, room_id), FALSE)
    /\ UNCHANGED <<clock, requests, parserVars>>

AssignNext == CallSetColmapData \/ CallAssignImageToRoom

SpecAssign == StoreInit /\ [][AssignNext]_vars

(***************************************************************************)
(* Specification of the load_colmap route.  The route is a plain function, *)
(* so every request runs in a thread of its own, and the threads share the *)
(* store.  A request is followed statement by statement: "route" (the      *)
(* check of the directory and the parse), then the two assignments of      *)
(* set_colmap_data, then "done".                                           *)
(***************************************************************************)
\* the workspace directories below COLMAP_DIR
ColmapDirs ==
    [a |-> [cameras |-> Present(<< <<"1", "PINHOLE", "2", "3", "0.5", "0.5">> >>),
            images |-> Present(<<ImageLine("1", "a.jpg"), LongTrack>>),
            points |-> Absent],
     b |-> [cameras |-> Present(<< <<"2", "SIMPLE_PINHOLE", "3", "2">> >>),
            images |-> Present(<<ImageLine("2", "b.jpg"), LongTrack>>),
            points |-> Absent],
     bad |-> [cameras |-> Present(<< <<"3", "PINHOLE", "x", "3", "0.5">> >>),
              images |-> Present(<<ImageLine("3", "c.jpg"), LongTrack>>),
              points |-> Absent]]

\* the workspace names requests are made with; "gone" has no directory
RequestNames == {"a", "b", "bad", "gone"}

Request(name, pc, cameras, images, response) ==
    [workspace |-> name, pc |-> pc, cameras |-> cameras, images |-> images,
     response |-> response]

ColmapInit ==
    /\ store = DemoStore
    /\ persistFile = Saved(DemoStore)
    /\ storeOut = Idle
    /\ clock = 0
    /\ requests \in [1..MaxRequests -> {Request(n, "route", <<>>, <<>>, None) : n \in RequestNames}]
    /\ ParsersAtRest

\* load_colmap up to the call of set_colmap_data: 404 without a directory;
\* an exception of the parse leaves the route
RouteLoadColmap ==
    /\ \E i \in DOMAIN requests :
         /\ requests[i].pc = "route"
         /\ LET name == requests[i].workspace
                r == LoadColmapWorkspace(ColmapDirs[name])
            IN requests' = [requests EXCEPT ![i] =
                 IF name \notin DOMAIN ColmapDirs
                 THEN Request(name, "done", <<>>, <<>>,
                              [status |-> 404, detail |-> "COLMAP workspace not found"])
                 ELSE IF r.raised # ""
                 THEN Request(name, "done", <<>>, <<>>, Unhandled(r.raised))
                 ELSE Request(name, "set_cameras", Get(r.result, "cameras", <<>>),
                              Get(r.result, "images", <<>>), None)]
    /\ UNCHANGED <<store, persistFile, storeOut, clock, parserVars>>

\* self.colmap_cameras = {c.id: c for c in cameras}
StepSetCameras ==
    /\ \E i \in DOMAIN requests :
         /\ requests[i].pc = "set_cameras"
         /\ store' = SetColmapCameras(store, requests[i].cameras)
         /\ requests' = [requests EXCEPT ![i].pc = "set_images"]
    /\ UNCHANGED <<persistFile, storeOut, clock, parserVars>>

\* self.colmap_images = {i.id: i for i in images}, and the route's return
StepSetImages ==
    /\ \E i \in DOMAIN requests :
         /\ requests[i].pc = "set_images"
         /\ store' = SetColmapImages(store, requests[i].images)
         /\ requests' = [requests EXCEPT
                           ![i].pc = "done",
                           ![i].response =
                               Response200([cameras |-> Len(requests[i].cameras),
                                            images |-> Len(requests[i].images)])]
    /\ UNCHANGED <<persistFile, storeOut, clock, parserVars>>

ColmapNext == RouteLoadColmap \/ StepSetCameras \/ StepSetImages

SpecColmap == ColmapInit /\ [][ColmapNext]_vars

(***************************************************************************)
(* The families together.                                                  *)
(***************************************************************************)
Init == CloudInit \/ ImagesInit \/ WorkspaceInit \/ StoreInit \/ ColmapInit

Next ==
    \/ CloudNext \/ LoadNext \/ ImagesNext \/ WorkspaceNext
    \/ StoreNext \/ HistoryNext \/ AssignNext \/ ColmapNext

Spec == Init /\ [][Next]_vars

(***************************************************************************)
(* Claims about the point-cloud functions (checked under SpecCloud).       *)
(***************************************************************************)
LoadReturned == cloudOut.op = "load_point_cloud" /\ cloudOut.out.raised = ""
EncodeReturned == cloudOut.op = "to_binary_buffer" /\ cloudOut.out.raised = ""

\* C1: every buffer to_binary_buffer returns has the declared layout: bytes
\* 0..3 are the little-endian point count N, byte 4 is has_colors (0 or 1),
\* and the length is 5 + 12*N, plus 3*N when has_colors is 1.
C1_BufferLayout ==
    EncodeReturned =>
        LET buf == cloudOut.out.buf
            n == Len(cloudOut.out.cloud.data)
        IN /\ Len(buf) >= 5
           /\ buf[1] + 256 * buf[2] + 65536 * buf[3] + 16777216 * buf[4] = n
           /\ buf[5] \in {0, 1}
           /\ buf[5] = 1 <=> cloudOut.out.cloud.has_colors
           /\ Len(buf) = 5 + 12 * n + (IF buf[5] = 1 THEN 3 * n ELSE 0)

\* C2: every encoded colour byte is the uint8 nearest to clamp(c*255, 0, 255)
\* for the normalised channel value c (NaN channels have no such value and
\* are left out).
C2_ColorBytesRounded ==
    (EncodeReturned /\ cloudOut.out.cloud.has_colors) =>
        LET buf == cloudOut.out.buf
            data == cloudOut.out.cloud.data
            n == Len(data)
        IN \A i \in 1..n : \A j \in 1..3 :
              LET c == data[i][3 + j]
                  b == buf[5 + 12 * n + 3 * (i - 1) + j]
                  x == IF c[1] * 255 < 0 THEN 0
                       ELSE IF c[1] * 255 > 255 * One THEN 255 * One ELSE c[1] * 255
              IN ~IsNaN(c) =>
                    /\ b \in 0..255
                    /\ 2 * (b * One - x) <= One
                    /\ 2 * (x - b * One) <= One

\* the colour block (columns 3-5) of the data the loaders returned holds a
\* sample above 1.5
SomeColorAbove(rows) ==
    \E i \in 1..Len(rows) : \E j \in 4..6 : ~IsNaN(rows[i][j]) /\ 2 * rows[i][j][1] > 3 * One
AllColorsAtMost(rows) ==
    \A i \in 1..Len(rows) : \A j \in 4..6 : ~IsNaN(rows[i][j]) /\ 2 * rows[i][j][1] <= 3 * One
SomeColorNaN(rows) == \E i \in 1..Len(rows) : \E j \in 4..6 : IsNaN(rows[i][j])
ColorsUnchanged(in, out) ==
    \A i \in 1..Len(in) : \A j \in 4..6 : out[i][j] = in[i][j]
ColorsOver255(in, out) ==
    \A i \in 1..Len(in) : \A j \in 4..6 :
        IF IsNaN(in[i][j]) THEN IsNaN(out[i][j])
        ELSE ~IsNaN(out[i][j]) /\ out[i][j][1] * 255 = in[i][j][1]
PositionsUnchanged(in, out) ==
    /\ Len(out) = Len(in)
    /\ \A i \in 1..Len(in) : \A j \in 1..3 : out[i][j] = in[i][j]

SixColumnsLoaded ==
    /\ LoadReturned
    /\ NCols(RawData(cloudFile, o3dAvailable)) >= 6

C4_ColorsInUnitRange ==
    (LoadReturned /\ cloudOut.out.has_colors) =>
        \A i \in 1..Len(cloudOut.out.data) :
            /\ Len(cloudOut.out.data[i]) = 6
            /\ \A j \in 4..6 :
                  LET c == cloudOut.out.data[i][j]
                  IN ~IsNaN(c) /\ 0 <= c[1] /\ c[1] <= One

\* no loader can produce point data for the file: it is missing, it is
\* neither a readable PLY/PCD nor numeric text, it holds no data rows, or it
\* is a PLY/PCD the backend is not asked or not able to read
NoPointData ==
    \/ cloudFile.kind \in {"missing", "garbage"}
    \/ Len(cloudFile.rows) = 0
    \/ /\ cloudFile.kind = "rich"
       /\ ~(o3dAvailable /\ Lower(cloudFile.suffix) \in {".ply", ".pcd"})

\* C10: load_point_cloud raises its load error (ValueError) whenever no
\* loader produces non-empty point data or the file is missing.
C10_LoadErrorWithoutData ==
    (cloudOut.op = "load_point_cloud" /\ NoPointData) =>
        cloudOut.out.raised = "ValueError"

(***************************************************************************)
(* Claims about parse_images_txt (checked under SpecImages).               *)
(***************************************************************************)
ImagesParsed == imagesOut.op = "parse_images_txt"

\* an odd line with the ten fields of an image, the numeric ones numeric
WellFormedOdd(l) ==
    /\ Len(l) >= 10
    /\ l[1] \in IntToks
    /\ \A k \in 2..8 : l[k] \in FloatToks
    /\ l[9] \in IntToks

\* lines is a sequence of pairs: a well-formed odd line, then its (non-blank,
\* non-comment) track line
WellFormedPairs(lines) ==
    /\ Len(lines) % 2 = 0
    /\ \A k \in 1..Len(lines) :
          IF k % 2 = 1 THEN WellFormedOdd(lines[k]) ELSE ~Skipped(lines[k])

NonComment(file) == SelectSeq(file, LAMBDA l : ~IsComment(l))

Malformed(l) == ~Skipped(l) /\ Len(l) < 10

\* C6: a malformed odd line is skipped without aborting the parse, whatever
\* the line after it holds: for a file that is a malformed line, any line,
\* then K well-formed pairs, the parse raises nothing and its last K records
\* are those of the K pairs.
C6_MalformedLineSkipped ==
    (/\ ImagesParsed
     /\ Len(imagesFile) >= 2
     /\ Malformed(imagesFile[1])
     /\ WellFormedPairs(SubSeq(imagesFile, 3, Len(imagesFile)))) =>
        LET pairs == SubSeq(imagesFile, 3, Len(imagesFile))
            k == Len(pairs) \div 2
            out == imagesOut.out
        IN /\ out.raised = ""
           /\ Len(out.images) >= k
           /\ \A j \in 1..k :
                 out.images[Len(out.images) - k + j].id = IntOf(pairs[2 * j - 1][1])

\* the file is image lines at the odd positions and anything but a comment
\* at the even ones (a blank line is an image without 2-D points)
OddEvenFile(file) ==
    /\ Len(file) % 2 = 0
    /\ \A k \in 1..Len(file) :
          IF k % 2 = 1 THEN WellFormedOdd(file[k]) ELSE ~IsComment(file[k])

\* the file with every even line replaced by one short track line
WithEvenLines(file, track) == [k \in 1..Len(file) |-> IF k % 2 = 0 THEN track ELSE file[k]]

\* C7: the even line of each pair is discarded without validation: a file
\* parses to the same records as the file that differs from it only in its
\* even lines.
C7_EvenLinesIgnored ==
    (ImagesParsed /\ OddEvenFile(imagesFile)) =>
        imagesOut.out = ParseImagesTxt(WithEvenLines(imagesFile, ShortLine))

(***************************************************************************)
(* Claims about load_colmap_workspace (checked under SpecWorkspace).       *)
(***************************************************************************)
WorkspaceLoaded == wsOut.op = "load_colmap_workspace"

\* a token that is no number stands where the layout of the line has one
BadIntAt(l, k) == k <= Len(l) /\ l[k] \notin IntToks
BadFloatAt(l, k) == k <= Len(l) /\ l[k] \notin FloatToks

BadCameraLine(l) ==
    /\ ~Skipped(l)
    /\ \/ \E k \in {1, 3, 4} : BadIntAt(l, k)
       \/ \E k \in 5..Len(l) : BadFloatAt(l, k)

BadImageLine(l) ==
    /\ Len(l) >= 10
    /\ \/ \E k \in {1, 9} : BadIntAt(l, k)
       \/ \E k \in 2..8 : BadFloatAt(l, k)

BadPointLine(l) ==
    /\ ~Skipped(l)
    /\ \/ \E k \in {1, 5, 6, 7} : BadIntAt(l, k)
       \/ \E k \in {2, 3, 4, 8} : BadFloatAt(l, k)

\* some file of the workspace holds such a token on a line that is read as
\* a record (for images.txt: on its first line)
NonNumericToken ==
    \/ workspace.cameras.exists
       /\ \E i \in 1..Len(workspace.cameras.lines) : BadCameraLine(workspace.cameras.lines[i])
    \/ workspace.images.exists
       /\ Len(workspace.images.lines) > 0
       /\ BadImageLine(workspace.images.lines[1])
    \/ workspace.points.exists
       /\ \E i \in 1..Len(workspace.points.lines) : BadPointLine(workspace.points.lines[i])

\* C8: a non-numeric token where a number is expected aborts the whole
\* load_colmap_workspace call (no result dict) with a parse error that
\* identifies the file and the line.
C8_ParseErrorNamesFileAndLine ==
    (WorkspaceLoaded /\ NonNumericToken) =>
        /\ wsOut.out.raised # ""
        /\ "result" \notin DOMAIN wsOut.out
        /\ {"file", "line"} \subseteq DOMAIN wsOut.out

PresentKeys == {k \in {"cameras", "images", "points"} : workspace[k].exists}

\* C9: for every subset of the three files present, the load does not fail
\* because a file is absent (it fails only when the parse of a present file
\* raises), and the result holds exactly the keys of the files that exist.
C9_KeysOfPresentFiles ==
    WorkspaceLoaded =>
        /\ wsOut.out.raised # "" =>
              \E k \in PresentKeys : ParsedFile(workspace, k).raised # ""
        /\ (\A k \in PresentKeys : ParsedFile(workspace, k).raised = "") =>
              /\ wsOut.out.raised = ""
              /\ DOMAIN wsOut.out.result = PresentKeys

\* cameras.txt is absent, images.txt holds a record, points3D.txt is present:
\* the result has the keys images and points and no key cameras
C9_Witness ==
    /\ WorkspaceLoaded
    /\ ~workspace.cameras.exists
    /\ workspace.images.exists
    /\ workspace.points.exists
    /\ wsOut.out.raised = ""
    /\ DOMAIN wsOut.out.result = {"images", "points"}
    /\ Len(wsOut.out.result.images) = 1

(***************************************************************************)
(* Claims about point_cloud_info and its route (checked under SpecCloud).  *)
(***************************************************************************)
\* an existing file that holds no point at all
ZeroPointFile == cloudFile.kind \in {"text", "rich"} /\ Len(cloudFile.rows) = 0

InfoReturned == cloudOut.op = "point_cloud_info" /\ cloudOut.out.raised = ""

CamerasParsed == wsOut.op = "parse_cameras_txt"

\* the lines of cameras.txt that are neither comments nor blank
CameraLines == SelectSeq(workspace.cameras.lines, LAMBDA l : ~Skipped(l))

\* a line whose first four tokens exist and whose numeric tokens convert
ConvertibleCamera(l) ==
    /\ Len(l) >= 4
    /\ l[1] \in IntToks /\ l[3] \in IntToks /\ l[4] \in IntToks
    /\ \A k \in 5..Len(l) : l[k] \in FloatToks

\* C12: parse_cameras_txt returns exactly when every non-comment,
\* non-blank line has its four leading tokens and its numeric tokens
\* convert, and it then returns one camera per such line, in file order,
\* with id, model, width and height from the first four tokens and params
\* the floats of all the remaining tokens, however many there are.
C12_OneCameraPerLine ==
    CamerasParsed =>
        /\ (wsOut.out.raised = "") <=>
               (\A i \in 1..Len(CameraLines) : ConvertibleCamera(CameraLines[i]))
        /\ wsOut.out.raised = "" =>
               /\ Len(wsOut.out.items) = Len(CameraLines)
               /\ \A i \in 1..Len(CameraLines) :
                     LET l == CameraLines[i]
                         cam == wsOut.out.items[i]
                     IN /\ cam.id = IntOf(l[1])
                        /\ cam.model = l[2]
                        /\ cam.width = IntOf(l[3])
                        /\ cam.height = IntOf(l[4])
                        /\ Len(cam.params) = Len(l) - 4
                        /\ \A k \in 1..Len(cam.params) : cam.params[k] = FloatOf(l[4 + k])

\* two cameras are returned in file order, the first with two parameters
\* and the second with none
C12_Witness ==
    /\ CamerasParsed
    /\ wsOut.out.raised = ""
    /\ Len(wsOut.out.items) = 2
    /\ wsOut.out.items[1].id = 1
    /\ Len(wsOut.out.items[1].params) = 2
    /\ wsOut.out.items[2].id = 2
    /\ Len(wsOut.out.items[2].params) = 0

(***************************************************************************)
(* Claims about the order of the loaders (checked under SpecLoad).         *)
(***************************************************************************)
\* the loaders called by a load that has passed the text-loader statement
CallsMade == IF cloudOut.op \in {"loading", "loaded"} THEN cloudOut.calls ELSE <<>>
PastText ==
    \/ cloudOut.op = "loaded"
    \/ cloudOut.op = "loading" /\ cloudOut.pc = "tail"
Called(f) == \E k \in 1..Len(CallsMade) : CallsMade[k] = f

\* C13: the backend is called only for the extensions .ply and .pcd, once,
\* and before the text loader; the text loader is called, whatever the
\* extension, exactly when the backend was not called or returned None; the
\* load error is raised only after the text loader was called and returned
\* None as well.
C13_LoaderOrder ==
    /\ Called("_try_open3d") =>
          /\ CallsMade[1] = "_try_open3d"
          /\ cloudFile.suffix \in {".ply", ".PCD"}
    /\ \A k \in 2..Len(CallsMade) : CallsMade[k] = "_load_xyz" /\ k = 2
    /\ PastText =>
          (Called("_load_xyz") <=>
              (~Called("_try_open3d") \/ TryOpen3d(cloudFile, o3dAvailable) = None))
    /\ (cloudOut.op = "loaded" /\ cloudOut.out = Raised("ValueError")) =>
          /\ CallsMade[Len(CallsMade)] = "_load_xyz"
          /\ LoadXyz(cloudFile) = None
    /\ cloudOut.op = "loaded" => cloudOut.out = LoadPointCloud(cloudFile, o3dAvailable)

\* a .ply file the backend cannot read but np.loadtxt can: both loaders were
\* called, the backend first, and the load returned a cloud
C13_Witness ==
    /\ cloudOut.op = "loaded"
    /\ cloudFile.suffix = ".ply"
    /\ cloudFile.kind = "text"
    /\ cloudOut.calls = <<"_try_open3d", "_load_xyz">>
    /\ cloudOut.out.raised = ""

(***************************************************************************)
(* Claims about the sensor and object calls (checked under SpecStore).     *)
(***************************************************************************)
NoDuplicates(list) == \A i, j \in 1..Len(list) : list[i] = list[j] => i = j
Elements(list) == {list[i] : i \in 1..Len(list)}

\* the lists of every room hold, once each, the ids of its sensors and of
\* its placed objects
RoomListsMatch ==
    \A r \in DOMAIN store.rooms :
        /\ NoDuplicates(store.rooms[r].sensors)
        /\ Elements(store.rooms[r].sensors) =
              {sid \in DOMAIN store.sensors : store.sensors[sid].room_id = r}
        /\ NoDuplicates(store.rooms[r].placed_objects)
        /\ Elements(store.rooms[r].placed_objects) =
              {oid \in DOMAIN store.placed_objects : store.placed_objects[oid].room_id = r}

\* an add call with a room id the store does not have raises KeyError, and
\* a call that raises KeyError changes neither the store nor its file
UnknownRoomRejected ==
    /\ (/\ storeOut'.op \in {"add_sensor", "add_placed_object"}
        /\ storeOut'.args.room_id \notin DOMAIN store.rooms) => storeOut'.raised = "KeyError"
    /\ storeOut'.raised = "KeyError" => (store' = store /\ persistFile' = persistFile)

\* C14: from the seeded demo store, after any sequence of add_sensor,
\* remove_sensor, add_placed_object and remove_placed_object calls every
\* room's sensors list holds, without duplicates, exactly the ids of the
\* sensors of that room, and its placed_objects list exactly the ids of the
\* objects of that room; a call with an unknown room id raises KeyError and
\* changes nothing.
C14_RoomListsConsistent == []RoomListsMatch /\ [][UnknownRoomRejected]_vars

\* a seeded lobby sensor has been removed, a new sensor sits in the lounge,
\* an object in the lobby, and the last call named an unknown room
C14_Witness ==
    /\ SeedId(1) \notin DOMAIN store.sensors
    /\ \E sid \in NewIds : store.rooms["room_lounge"].sensors = <<sid>>
    /\ \E oid \in NewIds : store.rooms["room_lobby"].placed_objects = <<oid>>
    /\ storeOut.op = "add_sensor"
    /\ storeOut.raised = "KeyError"

(***************************************************************************)
(* Claims about update_sensor_reading (checked under SpecHistory).         *)
(***************************************************************************)
\* every history holds at most 1000 readings of its sensor, in arrival
\* order, and ends with the sensor's last_reading
HistoriesBounded ==
    \A sid \in DOMAIN store.sensor_history :
        LET h == store.sensor_history[sid]
        IN /\ Len(h) >= 1
           /\ Len(h) <= 1000
           /\ \A i \in 1..Len(h) : h[i].sensor_id = sid
           /\ \A i \in 1..(Len(h) - 1) : h[i].timestamp < h[i + 1].timestamp
           /\ h[Len(h)] = store.sensors[sid].last_reading

\* a call for a sensor the store has appends its reading, and the append
\* to a history of 1000 leaves the 500 most recent readings; a call for
\* any other id raises KeyError and changes nothing
ReadingAppended ==
    storeOut'.op = "update_sensor_reading" =>
        LET sid == storeOut'.args.sensor_id
        IN IF sid \notin DOMAIN store.sensors
           THEN /\ storeOut'.raised = "KeyError"
                /\ store'.sensor_history = store.sensor_history
                /\ store'.sensors = store.sensors
                /\ store' = store
           ELSE LET old == Get(store.sensor_history, sid, <<>>)
                    new == store'.sensor_history[sid]
                IN /\ storeOut'.raised = ""
                   /\ new[Len(new)].timestamp = clock'
                   /\ clock' = clock + 1
                   /\ IF Len(old) = 1000
                      THEN /\ Len(new) = 500
                           /\ \A i \in 1..499 : new[i] = old[501 + i]
                      ELSE /\ Len(new) = Len(old) + 1
                           /\ \A i \in 1..Len(old) : new[i] = old[i]

\* C15: after any sequence of update_sensor_reading calls each sensor's
\* history holds at most 1000 readings in arrival order and ends with the
\* sensor's last_reading; the append that would make it 1001 long cuts it
\* to the 500 most recent readings; a call for an unknown sensor id raises
\* KeyError and leaves history and sensors unchanged.
C15_HistoryTrimmed == []HistoriesBounded /\ [][ReadingAppended]_vars

\* the 1001st reading of the sensor has just arrived and its history holds
\* the readings 502..1001
C15_Witness ==
    /\ storeOut.op = "update_sensor_reading"
    /\ storeOut.raised = ""
    /\ SeedId(1) \in DOMAIN store.sensor_history
    /\ Len(store.sensor_history[SeedId(1)]) = 500
    /\ store.sensor_history[SeedId(1)][1].timestamp = 502
    /\ store.sensor_history[SeedId(1)][500].timestamp = 1001

(***************************************************************************)
(* Claims about assign_image_to_room (checked under SpecAssign).           *)
(***************************************************************************)
\* what one assign_image_to_room call does to the store
AssignStep ==
    storeOut'.op = "assign_image_to_room" =>
        LET image_id == storeOut'.args.image_id
            room_id == storeOut'.args.room_id
        IN /\ storeOut'.raised = ""
           /\ (storeOut.op = "assign_image_to_room" /\ storeOut.args = storeOut'.args) =>
                 store' = store
           /\ image_id \notin DOMAIN store.colmap_images => store' = store
           /\ (image_id \in DOMAIN store.colmap_images /\ room_id \notin DOMAIN store.rooms) =>
                 store' = [store EXCEPT !.colmap_images[image_id].room_id = room_id]
           /\ \A r \in DOMAIN store.rooms :
                 \/ store'.rooms[r].images = store.rooms[r].images
                 \/ /\ Len(store'.rooms[r].images) = Len(store.rooms[r].images) + 1
                    /\ SubSeq(store'.rooms[r].images, 1, Len(store.rooms[r].images)) =
                          store.rooms[r].images
                    /\ ~Contains(store.rooms[r].images,
                                 store'.rooms[r].images[Len(store'.rooms[r].images)])

\* C16: assign_image_to_room never raises; a second call with the same
\* (image_id, room_id) leaves the store unchanged; a room's images list
\* never gains a name it already holds; a call with an image id not in
\* colmap_images changes nothing; a call with a known image and an unknown
\* room only sets the image's room_id.
C16_AssignIdempotent ==
    [](\A r \in DOMAIN store.rooms : NoDuplicates(store.rooms[r].images))
        /\ [][AssignStep]_vars

\* two images of the same name are assigned to the lounge, whose list
\* holds the name once
C16_Witness ==
    /\ storeOut.op = "assign_image_to_room"
    /\ DOMAIN store.colmap_images = {1, 2}
    /\ store.colmap_images[1].room_id = "room_lounge"
    /\ store.colmap_images[2].room_id = "room_lounge"
    /\ store.colmap_images[2].name = "a.jpg"
    /\ store.rooms["room_lounge"].images = <<"a.jpg">>

(***************************************************************************)
(* Claims about concurrent load_colmap requests (checked under SpecColmap).*)
(***************************************************************************)
AllFinished == \A i \in DOMAIN requests : requests[i].pc = "done"
Succeeded(i) == requests[i].pc = "done" /\ requests[i].response.status = 200

\* C17: once all load_colmap requests have finished, colmap_cameras and
\* colmap_images both come from one and the same load that succeeded, and
\* when no load succeeded (parse error, no directory) both maps are what
\* they were before the requests.
C17_MapsFromOneLoad ==
    AllFinished =>
        IF \E i \in DOMAIN requests : Succeeded(i)
        THEN \E i \in DOMAIN requests :
               /\ Succeeded(i)
               /\ store.colmap_cameras = DictById(requests[i].cameras)
               /\ store.colmap_images = DictById(requests[i].images)
        ELSE /\ store.colmap_cameras = DemoStore.colmap_cameras
             /\ store.colmap_images = DemoStore.colmap_images

====
